---- MODULE Spec2Model ----
(***************************************************************************)
(* Model of the diagnostic-flag tools:                                     *)
(*   tools/diagnostic-flags/parse_diagnostics.py   (flag table, closure)   *)
(*   tools/inconsistency-analysis/analyze_inconsistencies.py (four rules)  *)
(*                                                                         *)
(* Flag names are the numbers 1..NumNames.  A Python dict is a record      *)
(* [keys, val]: keys is the insertion order, val the mapping.  A JSON      *)
(* object with optional members is a TLA+ record whose DOMAIN holds only   *)
(* the members that are present; Get models dict.get(key, default).        *)
(* A value that Python makes True, False or None is one of the strings     *)
(* "True", "False", "None".                                                *)
(***************************************************************************)
EXTENDS Integers, Sequences, FiniteSets, TLC

VARIABLES pc, include_transitive, flags, file, data, issues

vars == <<pc, include_transitive, flags, file, data, issues>>

\* ---------------------------------------------------------------- bounds
NumNames == 3
MaxImplies == 2
MaxEdges == 3
MaxTrue == 2

Names == 1..NumNames

\* ------------------------------------------------------- Python helpers
None == "None"

Py(b) == IF b THEN "True" ELSE "False"

Truthy(v) == v = "True"

Get(d, k, default) == IF k \in DOMAIN d THEN d[k] ELSE default

EmptyDict == [keys |-> <<>>, val |-> [n \in {} |-> 0]]

Range(s) == {s[i] : i \in DOMAIN s}

Min(S) == CHOOSE m \in S : \A n \in S : m <= n

RECURSIVE Sorted(_)
Sorted(S) == IF S = {} THEN <<>> ELSE <<Min(S)>> \o Sorted(S \ {Min(S)})

\* ------------------------------------------------ parse_diagnostics.py
NewFlag(implies, implied_by) ==
    [implies |-> implies, implied_by |-> implied_by, is_error |-> FALSE,
     is_default |-> FALSE, some_default |-> FALSE]

RECURSIVE get_all_implies(_, _, _)
RECURSIVE ImpliedLoop(_, _, _, _, _)

\* The recursive call threads the one visited set of the top-level call
\* through every call; the value is the returned set, the visited set as the
\* call leaves it, and the calls that got past the guard of line 153, in the
\* order they were made (the flags the call expanded).
get_all_implies(fl, flag_name, visited) ==
    IF flag_name \in visited
    THEN [result |-> {}, visited |-> visited, expanded |-> <<>>]
    ELSE IF flag_name \in DOMAIN fl.val
         THEN LET loop == ImpliedLoop(fl, fl.val[flag_name].implies, 1, {},
                                      visited \cup {flag_name})
              IN [loop EXCEPT !.expanded = <<flag_name>> \o @]
         ELSE [result |-> {}, visited |-> visited \cup {flag_name},
               expanded |-> <<flag_name>>]

\* ImpliedLoop with line 161 guarded by "implied in flags": a name without a
\* record is left out of the result.
RECURSIVE ImpliedLoopSkipsMissing(_, _, _, _, _)
ImpliedLoopSkipsMissing(fl, implies, i, result, visited) ==
    IF i > Len(implies)
    THEN [result |-> result, visited |-> visited, expanded |-> <<>>]
    ELSE LET implied == implies[i]
             sub == get_all_implies(fl, implied, visited)
             found == IF implied \in DOMAIN fl.val THEN {implied} ELSE {}
             rest == ImpliedLoopSkipsMissing(fl, implies, i + 1,
                         (result \cup found) \cup sub.result, sub.visited)
         IN [rest EXCEPT !.expanded = sub.expanded \o @]

\* ImpliedLoop with visited passed by value: a recursive call works on its own
\* copy, so what it visits is not known to the calls for the later children.
RECURSIVE ImpliedLoopCopiesVisited(_, _, _, _, _)
ImpliedLoopCopiesVisited(fl, implies, i, result, visited) ==
    IF i > Len(implies)
    THEN [result |-> result, visited |-> visited, expanded |-> <<>>]
    ELSE LET implied == implies[i]
             sub == get_all_implies(fl, implied, visited)
             rest == ImpliedLoopCopiesVisited(fl, implies, i + 1,
                         (result \cup {implied}) \cup sub.result, visited)
         IN [rest EXCEPT !.expanded = sub.expanded \o @]

\* The loop of lines 160-162 from the i-th entry of the implies list on.
ImpliedLoop(fl, implies, i, result, visited) ==
    IF i > Len(implies)
    THEN [result |-> result, visited |-> visited, expanded |-> <<>>]
    ELSE LET implied == implies[i]
             sub == get_all_implies(fl, implied, visited)
             rest == ImpliedLoop(fl, implies, i + 1,
                         (result \cup {implied}) \cup sub.result, sub.visited)
         IN [rest EXCEPT !.expanded = sub.expanded \o @]

AllImplied(fl, flag_name) == get_all_implies(fl, flag_name, {}).result

\* build_implied_by: the outer loop iterates the dict it inserts into.  An
\* insertion changes the dict's size, so the iterator raises RuntimeError when
\* it is asked for the next item, after the inner loop of the current flag.
RECURSIVE ImpliedByInner(_, _, _, _, _)
ImpliedByInner(val, keys, flag_name, implies, j) ==
    IF j > Len(implies)
    THEN [keys |-> keys, val |-> val]
    ELSE LET implied_flag == implies[j]
         IN IF implied_flag \in DOMAIN val
            THEN IF flag_name \notin Range(val[implied_flag].implied_by)
                 THEN ImpliedByInner(
                          [val EXCEPT ![implied_flag].implied_by = Append(@, flag_name)],
                          keys, flag_name, implies, j + 1)
                 ELSE ImpliedByInner(val, keys, flag_name, implies, j + 1)
            ELSE ImpliedByInner(
                     val @@ (implied_flag :> NewFlag(<<>>, <<flag_name>>)),
                     Append(keys, implied_flag), flag_name, implies, j + 1)

RECURSIVE ImpliedByOuter(_, _, _)
ImpliedByOuter(fl, iter_keys, i) ==
    IF i > Len(iter_keys)
    THEN [flags |-> fl, raised |-> FALSE]
    ELSE LET flag_name == iter_keys[i]
             after == ImpliedByInner(fl.val, fl.keys, flag_name, fl.val[flag_name].implies, 1)
         IN IF Len(after.keys) # Len(fl.keys)
            THEN [flags |-> after, raised |-> TRUE]
            ELSE ImpliedByOuter(after, iter_keys, i + 1)

build_implied_by(fl) == ImpliedByOuter(fl, fl.keys, 1)

\* WithTransitive with the flag itself discarded from its own list.
WithTransitiveNoSelf(fl) ==
    [keys |-> fl.keys,
     val |-> [n \in DOMAIN fl.val |->
                 [implies_transitive |-> Sorted(AllImplied(fl, n) \ {n})] @@ fl.val[n]]]

\* main, lines 198-202: the --include-transitive loop.
WithTransitive(fl) ==
    [keys |-> fl.keys,
     val |-> [n \in DOMAIN fl.val |->
                 [implies_transitive |-> Sorted(AllImplied(fl, n))] @@ fl.val[n]]]

\* main, lines 204-212: sort the flags by name and build the output document.
SortedFlags(fl) == [keys |-> Sorted(DOMAIN fl.val), val |-> fl.val]

Output(fl) == [flag_count |-> Len(SortedFlags(fl).keys), flags |-> SortedFlags(fl)]

\* ------------------------------------------- analyze_inconsistencies.py
\* Type0Flags without the "not implies" test of line 75.
Type0FlagsAnySomeDefault(fl) ==
    {flag_name \in DOMAIN fl.val : Get(fl.val[flag_name], "some_default", FALSE)}

\* First pass (lines 66-76): the set of Type 0 flags.
Type0Flags(fl) ==
    {flag_name \in DOMAIN fl.val :
        /\ Get(fl.val[flag_name], "some_default", FALSE)
        /\ Get(fl.val[flag_name], "implies", <<>>) = <<>>}

\* IsEnabled without the Type 0 cause.
IsEnabledNoType0(fl, type0_flags, subflag_name) ==
    \/ Get(fl.val[subflag_name], "is_default", FALSE)
    \/ Get(fl.val[subflag_name], "is_error", FALSE)
    \/ Get(fl.val[subflag_name], "has_no_effect", FALSE)

\* IsEnabled without the has_no_effect cause.
IsEnabledNoInert(fl, type0_flags, subflag_name) ==
    \/ Get(fl.val[subflag_name], "is_default", FALSE)
    \/ Get(fl.val[subflag_name], "is_error", FALSE)
    \/ subflag_name \in type0_flags

\* The composite status of a sub-flag that has a record (lines 111 and 139).
IsEnabled(fl, type0_flags, subflag_name) ==
    \/ Get(fl.val[subflag_name], "is_default", FALSE)
    \/ Get(fl.val[subflag_name], "is_error", FALSE)
    \/ Get(fl.val[subflag_name], "has_no_effect", FALSE)
    \/ subflag_name \in type0_flags

\* TransitiveEntry that keeps the composite status only: the three causes are
\* entered as False.
TransitiveEntryCompositeOnly(fl, type0_flags, subflag_name) ==
    [name |-> subflag_name,
     is_default |-> IF subflag_name \in DOMAIN fl.val
                    THEN Py(IsEnabled(fl, type0_flags, subflag_name))
                    ELSE None,
     is_error |-> FALSE, has_no_effect |-> FALSE, is_type0 |-> FALSE]

\* One entry of transitive_subflag_defaults (lines 104-128).
TransitiveEntry(fl, type0_flags, subflag_name) ==
    IF subflag_name \in DOMAIN fl.val
    THEN [name |-> subflag_name,
          is_default |-> Py(IsEnabled(fl, type0_flags, subflag_name)),
          is_error |-> Get(fl.val[subflag_name], "is_error", FALSE),
          has_no_effect |-> Get(fl.val[subflag_name], "has_no_effect", FALSE),
          is_type0 |-> subflag_name \in type0_flags]
    ELSE [name |-> subflag_name, is_default |-> None, is_error |-> FALSE,
          has_no_effect |-> FALSE, is_type0 |-> FALSE, missing |-> TRUE]

\* DirectEntry with a name that has no record entered as a flag that is not
\* enabled.
DirectEntryMissingAsDisabled(fl, type0_flags, subflag_name) ==
    [name |-> subflag_name,
     is_default |-> Py(subflag_name \in DOMAIN fl.val /\ IsEnabled(fl, type0_flags, subflag_name)),
     is_error |-> subflag_name \in DOMAIN fl.val /\ Get(fl.val[subflag_name], "is_error", FALSE),
     has_no_effect |-> subflag_name \in DOMAIN fl.val
                         /\ Get(fl.val[subflag_name], "has_no_effect", FALSE),
     is_type0 |-> subflag_name \in type0_flags,
     some_default |-> Py(subflag_name \in DOMAIN fl.val
                           /\ Get(fl.val[subflag_name], "some_default", FALSE))]

\* One entry of direct_subflag_defaults (lines 132-157).
DirectEntry(fl, type0_flags, subflag_name) ==
    IF subflag_name \in DOMAIN fl.val
    THEN [name |-> subflag_name,
          is_default |-> Py(IsEnabled(fl, type0_flags, subflag_name)),
          is_error |-> Get(fl.val[subflag_name], "is_error", FALSE),
          has_no_effect |-> Get(fl.val[subflag_name], "has_no_effect", FALSE),
          is_type0 |-> subflag_name \in type0_flags,
          some_default |-> Py(Get(fl.val[subflag_name], "some_default", FALSE))]
    ELSE [name |-> subflag_name, is_default |-> None, is_error |-> FALSE,
          has_no_effect |-> FALSE, is_type0 |-> FALSE, some_default |-> None,
          missing |-> TRUE]

Resolved(entries) == SelectSeq(entries, LAMBDA sf : sf.is_default # None)

\* TrulyEnabled that keeps the members with has_no_effect set.
TrulyEnabledKeepsInert(entries) ==
    SelectSeq(entries, LAMBDA sf : Truthy(sf.is_default) /\ ~sf.is_type0)

\* truly_enabled (lines 188-189).
TrulyEnabled(entries) ==
    SelectSeq(entries, LAMBDA sf : Truthy(sf.is_default) /\ ~sf.has_no_effect /\ ~sf.is_type0)

\* enabled_by_default (lines 170 and 193).
EnabledByDefault(entries) == SelectSeq(entries, LAMBDA sf : Truthy(sf.is_default))

\* NotEnabledByDefault without the "is not None" test of line 211.
NotEnabledKeepsMissing(entries) == SelectSeq(entries, LAMBDA sf : ~Truthy(sf.is_default))

\* not_enabled_by_default (line 211).
NotEnabledByDefault(entries) ==
    SelectSeq(entries, LAMBDA sf : ~Truthy(sf.is_default) /\ sf.is_default # None)

\* ParentIsDefault without the is_error cause.
ParentIsDefaultOnly(flag_data) == Get(flag_data, "is_default", FALSE)

\* parent_is_default (line 164): error by default counts as enabled.
ParentIsDefault(flag_data) ==
    Get(flag_data, "is_default", FALSE) \/ Get(flag_data, "is_error", FALSE)

\* The Type 1 test of line 168.
FiresType1(parent_some_default, transitive) ==
    /\ parent_some_default
    /\ \A i \in DOMAIN Resolved(transitive) : ~Truthy(Resolved(transitive)[i].is_default)

\* FiresType2 without the "not parent_is_default" test of line 186.
FiresType2AnyParentDefault(parent_some_default, parent_is_default, transitive) ==
    /\ ~parent_some_default
    /\ TrulyEnabled(transitive) # <<>>

\* The Type 2 test of lines 186-191.
FiresType2(parent_some_default, parent_is_default, transitive) ==
    /\ ~parent_some_default
    /\ ~parent_is_default
    /\ TrulyEnabled(transitive) # <<>>

\* The Type 3 test of line 209.
FiresType3(parent_is_default, transitive) ==
    /\ parent_is_default
    /\ ~(\A i \in DOMAIN Resolved(transitive) : Truthy(Resolved(transitive)[i].is_default))

\* One iteration of the second pass (lines 79-222) for flag_name: acc is the
\* four lists so far, the value is the four lists after the iteration.
SecondPassStep(fl, type0_flags, flag_name, acc) ==
    LET flag_data == fl.val[flag_name]
        implies == Get(flag_data, "implies", <<>>)
        implies_transitive == Get(flag_data, "implies_transitive", <<>>)
        parent_some_default == Get(flag_data, "some_default", FALSE)
        transitive == [i \in DOMAIN implies_transitive |->
                          TransitiveEntry(fl, type0_flags, implies_transitive[i])]
        direct == [i \in DOMAIN implies |-> DirectEntry(fl, type0_flags, implies[i])]
        parent_is_default == ParentIsDefault(flag_data)
        parent_is_error == Get(flag_data, "is_error", FALSE)
        t1 == [flag |-> flag_name,
               parent_some_default |-> parent_some_default,
               parent_is_default |-> parent_is_default,
               parent_is_error |-> parent_is_error,
               direct_subflags |-> direct,
               transitive_count |-> Len(implies_transitive),
               enabled_by_default_count |-> Len(EnabledByDefault(transitive))]
        t2 == [flag |-> flag_name,
               parent_some_default |-> parent_some_default,
               parent_is_default |-> parent_is_default,
               parent_is_error |-> parent_is_error,
               direct_subflags |-> direct,
               transitive_count |-> Len(implies_transitive),
               enabled_by_default |-> EnabledByDefault(transitive),
               enabled_by_default_count |-> Len(EnabledByDefault(transitive)),
               truly_enabled_count |-> Len(TrulyEnabled(transitive))]
        t3 == [flag |-> flag_name,
               parent_some_default |-> parent_some_default,
               parent_is_default |-> parent_is_default,
               parent_is_error |-> parent_is_error,
               direct_subflags |-> direct,
               transitive_count |-> Len(implies_transitive),
               not_enabled_by_default |-> NotEnabledByDefault(transitive),
               not_enabled_by_default_count |-> Len(NotEnabledByDefault(transitive))]
    IN IF flag_name \in type0_flags
       THEN [acc EXCEPT !.type0_issues = Append(@,
                [flag |-> flag_name,
                 parent_some_default |-> parent_some_default,
                 parent_is_default |-> Get(flag_data, "is_default", FALSE),
                 has_implies |-> FALSE,
                 has_implies_transitive |-> implies_transitive # <<>>])]
       ELSE IF implies = <<>>
       THEN acc
       ELSE [acc EXCEPT
               !.type1_issues =
                   IF FiresType1(parent_some_default, transitive) THEN Append(@, t1) ELSE @,
               !.type2_issues =
                   IF FiresType2(parent_some_default, parent_is_default, transitive)
                   THEN Append(@, t2) ELSE @,
               !.type3_issues =
                   IF FiresType3(parent_is_default, transitive) THEN Append(@, t3) ELSE @]

RECURSIVE SecondPass(_, _, _, _)

\* SecondPass with the two passes merged: a flag is checked against the Type 0
\* flags of the keys up to its own.
RECURSIVE SecondPassKnowsEarlier(_, _, _, _)
SecondPassKnowsEarlier(fl, type0_flags, i, acc) ==
    IF i > Len(fl.keys)
    THEN acc
    ELSE SecondPassKnowsEarlier(fl, type0_flags, i + 1,
             SecondPassStep(fl, type0_flags \cap {fl.keys[k] : k \in 1..i}, fl.keys[i], acc))

\* SecondPass over the keys from the last to the first.
RECURSIVE SecondPassBackwards(_, _, _, _)
SecondPassBackwards(fl, type0_flags, i, acc) ==
    IF i > Len(fl.keys)
    THEN acc
    ELSE SecondPassStep(fl, type0_flags, fl.keys[i],
                        SecondPassBackwards(fl, type0_flags, i + 1, acc))

\* The loop of the second pass (line 79) over the keys in the dict's order.
SecondPass(fl, type0_flags, i, acc) ==
    IF i > Len(fl.keys)
    THEN acc
    ELSE SecondPass(fl, type0_flags, i + 1, SecondPassStep(fl, type0_flags, fl.keys[i], acc))

NoIssues ==
    [type0_issues |-> <<>>, type1_issues |-> <<>>, type2_issues |-> <<>>,
     type3_issues |-> <<>>]

\* check_inconsistencies(data) for a document that has the 'flags' member.
check_inconsistencies(d) == SecondPass(d.flags, Type0Flags(d.flags), 1, NoIssues)

\* ------------------------------------------------------------ the inputs
\* An implies list: the parser appends a name only when it is not yet in the
\* list (lines 87 and 94), so a list has no duplicates.
ImpliesLists ==
    {s \in UNION {[1..k -> Names] : k \in 0..MaxImplies} :
        \A i, j \in DOMAIN s : s[i] = s[j] => i = j}

\* The implies lists of the flags S, with at most budget entries in all.
RECURSIVE GraphsWithin(_, _)
GraphsWithin(S, budget) ==
    IF S = {}
    THEN {[n \in {} |-> <<>>]}
    ELSE LET n == CHOOSE m \in S : TRUE
         IN UNION {{(n :> l) @@ g : g \in GraphsWithin(S \ {n}, budget - Len(l))} :
                      l \in {k \in ImpliesLists : Len(k) <= budget}}

Graphs(S) == GraphsWithin(S, MaxEdges)

ParserAttrs == {"is_error", "is_default", "some_default"}

FileAttrs == ParserAttrs \cup {"has_no_effect"}

TrueSets(S, attrs) == {T \in SUBSET (S \X attrs) : Cardinality(T) <= MaxTrue}

\* The table after DiagnosticsParser.feed: the record of lines 61-68 with the
\* implies list and the booleans the paragraphs set (lines 86-108).
ParsedTable(S, g, T) ==
    [keys |-> Sorted(S),
     val |-> [n \in S |->
                [implies |-> g[n], implied_by |-> <<>>,
                 is_error |-> <<n, "is_error">> \in T,
                 is_default |-> <<n, "is_default">> \in T,
                 some_default |-> <<n, "some_default">> \in T]]]

Nothing == [nothing |-> TRUE]

\* A diagnostics.json as the analysis finds it: a flag record has the members
\* the parser writes and, when it was annotated so, has_no_effect.
FileRecord(n, g, T) ==
    LET r == [implies |-> g[n],
              is_error |-> <<n, "is_error">> \in T,
              is_default |-> <<n, "is_default">> \in T,
              some_default |-> <<n, "some_default">> \in T]
    IN IF <<n, "has_no_effect">> \in T THEN r @@ [has_no_effect |-> TRUE] ELSE r

FileFlags(S, g, T) == [keys |-> Sorted(S), val |-> [n \in S |-> FileRecord(n, g, T)]]

\* The implies_transitive member of a file's records: written by
\* --include-transitive ("computed"), not written ("absent"), or written and
\* then one entry of one record put in or taken out by hand (an edit <<f, n>>).
Toggle(list, n) ==
    IF n \in Range(list) THEN Sorted(Range(list) \ {n}) ELSE Sorted(Range(list) \cup {n})

FileFlagsWith(fl, mode, edit) ==
    IF mode = "absent" THEN fl
    ELSE [keys |-> fl.keys,
          val |-> [n \in DOMAIN fl.val |->
                     IF edit # <<>> /\ edit[1] = n
                     THEN [WithTransitive(fl).val[n] EXCEPT
                              !.implies_transitive = Toggle(@, edit[2])]
                     ELSE WithTransitive(fl).val[n]]]

Document(fl) == [flag_count |-> Len(fl.keys), flags |-> fl]

\* A document without the top-level 'flags' member.
NoFlagsDocument == [flag_count |-> 0]

\* ----------------------------------------------------------- state machine
InitParser ==
    \E S \in SUBSET Names :
      \E g \in Graphs(S) :
        \E T \in TrueSets(S, ParserAttrs) :
          /\ pc = "parsed"
          /\ include_transitive \in BOOLEAN
          /\ flags = ParsedTable(S, g, T)
          /\ file = Nothing
          /\ data = Nothing
          /\ issues = NoIssues

\* A diagnostics.json as parse_diagnostics.py writes it, with or without
\* --include-transitive, or such a file with has_no_effect annotations or with
\* records taken out.
InitFile ==
    \E S \in SUBSET Names :
      \E g \in Graphs(S) :
        \E T \in TrueSets(S, FileAttrs) :
          \E mode \in {"absent", "computed"} :
            /\ pc = "file"
            /\ include_transitive = FALSE
            /\ flags = EmptyDict
            /\ file = Document(FileFlagsWith(FileFlags(S, g, T), mode, <<>>))
            /\ data = Nothing
            /\ issues = NoIssues

\* Such a file with one entry of one implies_transitive list changed by hand.
InitEdited ==
    \E S \in SUBSET Names :
      \E g \in Graphs(S) :
        \E T \in TrueSets(S, FileAttrs) :
          \E edit \in S \X Names :
            /\ pc = "file"
            /\ include_transitive = FALSE
            /\ flags = EmptyDict
            /\ file = Document(FileFlagsWith(FileFlags(S, g, T), "computed", edit))
            /\ data = Nothing
            /\ issues = NoIssues

Reverse(seq) == [i \in DOMAIN seq |-> seq[Len(seq) + 1 - i]]

\* A file with implies_transitive whose flags are not in the order of their
\* names: json.load keeps the order of the file (line 20).
InitReordered ==
    \E S \in SUBSET Names :
      \E g \in Graphs(S) :
        \E T \in TrueSets(S, FileAttrs) :
          /\ Cardinality(S) > 1
          /\ pc = "file"
          /\ include_transitive = FALSE
          /\ flags = EmptyDict
          /\ file = Document([FileFlagsWith(FileFlags(S, g, T), "computed", <<>>)
                                 EXCEPT !.keys = Reverse(@)])
          /\ data = Nothing
          /\ issues = NoIssues

\* The members every flag record of the parser's output has (lines 61-68).
RequiredFields == {"implies", "is_error", "is_default", "some_default"}

Without(r, field) == [k \in DOMAIN r \ {field} |-> r[k]]

\* A file without implies_transitive in which one record lacks one of the
\* required members.
InitIncomplete ==
    \E S \in SUBSET Names :
      \E g \in Graphs(S) :
        \E T \in {U \in TrueSets(S, FileAttrs) : Cardinality(U) < MaxTrue} :
          \E f \in S :
            \E field \in RequiredFields :
              /\ pc = "file"
              /\ include_transitive = FALSE
              /\ flags = EmptyDict
              /\ file = Document([FileFlags(S, g, T) EXCEPT !.val[f] = Without(@, field)])
              /\ data = Nothing
              /\ issues = NoIssues

InitNoFlags ==
    /\ pc = "file"
    /\ include_transitive = FALSE
    /\ flags = EmptyDict
    /\ file = NoFlagsDocument
    /\ data = Nothing
    /\ issues = NoIssues

\* The four-name table A implies [B, C], B implies [D], C and D childless,
\* A.some_default and D.is_default set: A, B, C, D are the names 1, 2, 3, 4.
SyntheticTable ==
    [keys |-> <<1, 2, 3, 4>>,
     val |-> (1 :> [NewFlag(<<2, 3>>, <<>>) EXCEPT !.some_default = TRUE]) @@
             (2 :> NewFlag(<<4>>, <<>>)) @@
             (3 :> NewFlag(<<>>, <<>>)) @@
             (4 :> [NewFlag(<<>>, <<>>) EXCEPT !.is_default = TRUE])]

InitSynthetic ==
    /\ pc = "parsed"
    /\ include_transitive \in BOOLEAN
    /\ flags = SyntheticTable
    /\ file = Nothing
    /\ data = Nothing
    /\ issues = NoIssues

Init ==
    \/ InitParser \/ InitSynthetic \/ InitFile \/ InitEdited
    \/ InitReordered \/ InitIncomplete \/ InitNoFlags

\* parse_diagnostics.main, line 194.
BuildImpliedBy ==
    /\ pc = "parsed"
    /\ flags' = build_implied_by(flags).flags
    /\ pc' = IF build_implied_by(flags).raised THEN "RuntimeError" ELSE "built"
    /\ UNCHANGED <<include_transitive, file, data, issues>>

\* parse_diagnostics.main, lines 198-202.
IncludeTransitive ==
    /\ pc = "built"
    /\ flags' = IF include_transitive THEN WithTransitive(flags) ELSE flags
    /\ pc' = "closed"
    /\ UNCHANGED <<include_transitive, file, data, issues>>

\* parse_diagnostics.main, lines 204-216.
WriteOutput ==
    /\ pc = "closed"
    /\ file' = Output(flags)
    /\ pc' = "file"
    /\ UNCHANGED <<include_transitive, flags, data, issues>>

\* analyze_inconsistencies.main, line 511.
Load ==
    /\ pc = "file"
    /\ data' = file
    /\ pc' = "loaded"
    /\ UNCHANGED <<include_transitive, flags, file, issues>>

\* Check with the optional members read by setdefault instead of get: the
\* defaults are written into the records.
CheckFillsDefaults ==
    /\ pc = "loaded"
    /\ "flags" \in DOMAIN data
    /\ issues' = check_inconsistencies(data)
    /\ data' = [data EXCEPT !.flags.val =
                   [n \in DOMAIN @ |->
                      @[n] @@ [has_no_effect |-> FALSE, implies_transitive |-> <<>>]]]
    /\ pc' = "analyzed"
    /\ UNCHANGED <<include_transitive, flags, file>>

\* analyze_inconsistencies.main, line 516: check_inconsistencies returns.
Check ==
    /\ pc = "loaded"
    /\ "flags" \in DOMAIN data
    /\ issues' = check_inconsistencies(data)
    /\ pc' = "analyzed"
    /\ UNCHANGED <<include_transitive, flags, file, data>>

\* analyze_inconsistencies.main, line 516: data['flags'] raises KeyError.
CheckKeyError ==
    /\ pc = "loaded"
    /\ "flags" \notin DOMAIN data
    /\ pc' = "KeyError"
    /\ UNCHANGED <<include_transitive, flags, file, data, issues>>

Next ==
    \/ BuildImpliedBy
    \/ IncludeTransitive
    \/ WriteOutput
    \/ Load
    \/ Check
    \/ CheckKeyError

Spec == Init /\ [][Next]_vars

\* parse_diagnostics.py alone, on the tables of every shape: the closure reads
\* the implies lists only, so no boolean is set.
InitTables ==
    \E S \in SUBSET Names :
      \E g \in Graphs(S) :
        /\ pc = "parsed"
        /\ include_transitive \in BOOLEAN
        /\ flags = ParsedTable(S, g, {})
        /\ file = Nothing
        /\ data = Nothing
        /\ issues = NoIssues

NextParser == BuildImpliedBy \/ IncludeTransitive \/ WriteOutput

SpecParser == InitTables /\ [][NextParser]_vars

\* ------------------------------------------------- vocabulary of the claims
\* Reachability over implies edges, as a least fixed point: a name without a
\* record has no successors.
Succ(fl, n) == IF n \in DOMAIN fl.val THEN Range(fl.val[n].implies) ELSE {}

RECURSIVE Grow(_, _)
Grow(fl, S) ==
    LET T == S \cup UNION {Succ(fl, n) : n \in S}
    IN IF T = S THEN S ELSE Grow(fl, T)

ReachableFrom(fl, f) == Grow(fl, Succ(fl, f))

OnCycle(fl, f) == \E n \in ReachableFrom(fl, f) \cup {f} : f \in Succ(fl, n)

NamesOf(fl) == DOMAIN fl.val \cup UNION {Succ(fl, n) : n \in DOMAIN fl.val}

\* The stores of a state: the parser's table and the flags of the file.
Stores == {flags} \cup (IF "flags" \in DOMAIN file THEN {file.flags} ELSE {})

Analyzed == pc = "analyzed"

Store == data.flags.val

HasRecord(m) == m \in DOMAIN Store

Attr(m, a) == Get(Store[m], a, FALSE)

Implies(f) == Get(Store[f], "implies", <<>>)

\* closure(f) as the analysis has it: the members of the record's
\* implies_transitive list, none when the record has no such list.
Closure(f) == Range(Get(Store[f], "implies_transitive", <<>>))

IsType0(m) == HasRecord(m) /\ Attr(m, "some_default") /\ Implies(m) = <<>>

MemberEnabled(m) ==
    /\ HasRecord(m)
    /\ Attr(m, "is_default") \/ Attr(m, "is_error") \/ Attr(m, "has_no_effect") \/ IsType0(m)

InList(list, f) == \E i \in DOMAIN list : list[i].flag = f

\* ------------------------------------------------------------------ C1
\* C1: for every store and every flag f, get_all_implies(flags, f) is exactly
\* the set of names reachable from f over one or more implies edges, a name
\* without a record being a member that is not expanded; f is in its own
\* closure exactly when f lies on an implies cycle.
C1_ClosureIsReachability ==
    \A fl \in Stores :
      \A f \in NamesOf(fl) \cup Names :
        /\ AllImplied(fl, f) = ReachableFrom(fl, f)
        /\ f \in AllImplied(fl, f) <=> OnCycle(fl, f)

\* A table with a flag on a cycle whose closure also holds a name that has no
\* record.
C1_Witness ==
    /\ pc = "parsed"
    /\ \E f \in DOMAIN flags.val :
         /\ f \in AllImplied(flags, f)
         /\ \E m \in AllImplied(flags, f) : m \notin DOMAIN flags.val

\* ------------------------------------------------------------------ C2
Closed == pc \in {"closed", "file", "loaded", "analyzed"} /\ include_transitive

\* C2 as stated: the implies_transitive written for f is the transitive closure
\* of implies restricted to the names of the store, with f itself removed.
C2_Original ==
    Closed =>
      \A f \in DOMAIN flags.val :
        Range(flags.val[f].implies_transitive) =
            (ReachableFrom(flags, f) \cap DOMAIN flags.val) \ {f}

\* C2 amended: the implies_transitive written for f is the sorted,
\* duplicate-free list of the names reachable from f over one or more implies
\* edges (each has a record by then); f itself is in it exactly when f lies on
\* an implies cycle.
C2_TransitiveIsClosure ==
    Closed =>
      \A f \in DOMAIN flags.val :
        /\ flags.val[f].implies_transitive = Sorted(ReachableFrom(flags, f))
        /\ ReachableFrom(flags, f) \subseteq DOMAIN flags.val
        /\ f \in Range(flags.val[f].implies_transitive) <=> OnCycle(flags, f)

C2_Witness ==
    /\ pc = "closed"
    /\ include_transitive
    /\ \E f, g \in DOMAIN flags.val :
         /\ f \in Range(flags.val[f].implies_transitive)
         /\ g \in Range(flags.val[f].implies_transitive)
         /\ g # f

\* ------------------------------------------------------------------ C3
IsSynthetic ==
    /\ DOMAIN Store = {1, 2, 3, 4}
    /\ Implies(1) = <<2, 3>> /\ Implies(2) = <<4>>
    /\ Implies(3) = <<>> /\ Implies(4) = <<>>
    /\ Attr(1, "some_default") /\ ~Attr(2, "is_default")
    /\ ~Attr(3, "is_default") /\ Attr(4, "is_default")

\* A finding for f carries an entry for the enabled member m, which is no
\* direct child of f (only Type 2 findings list enabled transitive members).
NamesIndirectEvidence(f, m) ==
    \E i \in DOMAIN issues.type2_issues :
      /\ issues.type2_issues[i].flag = f
      /\ m \notin Range(Implies(f))
      /\ \E j \in DOMAIN issues.type2_issues[i].enabled_by_default :
           issues.type2_issues[i].enabled_by_default[j].name = m

\* C3 as stated: a flag f with some_default set, is_default and is_error not
\* set and a non-empty implies list has no Type 1 finding when a flag
\* reachable from f over implies edges is enabled by default; on the synthetic
\* store there is no Type 1 finding for A and D is named as indirect enabling
\* evidence for A.
C3_Original ==
    Analyzed =>
      /\ \A f \in DOMAIN Store :
           ( /\ Attr(f, "some_default")
             /\ ~Attr(f, "is_default")
             /\ ~Attr(f, "is_error")
             /\ Implies(f) # <<>>
             /\ \E m \in ReachableFrom(data.flags, f) :
                  HasRecord(m) /\ Attr(m, "is_default") )
           => ~InList(issues.type1_issues, f)
      /\ IsSynthetic =>
           /\ ~InList(issues.type1_issues, 1)
           /\ NamesIndirectEvidence(1, 4)

\* ------------------------------------------------------------------ C4
\* C4: f is in the Type 0 list exactly when some_default(f) is set and
\* implies(f) is empty, and a flag of the Type 0 list is in none of the Type 1,
\* Type 2 and Type 3 lists.
C4_Type0 ==
    Analyzed =>
      \A f \in DOMAIN Store :
        /\ InList(issues.type0_issues, f) <=> (Attr(f, "some_default") /\ Implies(f) = <<>>)
        /\ InList(issues.type0_issues, f) =>
             /\ ~InList(issues.type1_issues, f)
             /\ ~InList(issues.type2_issues, f)
             /\ ~InList(issues.type3_issues, f)

\* A Type 0 flag that is also enabled by default and has a non-empty
\* implies_transitive list with a member that is not enabled, beside a flag
\* with some_default set that has children.
C4_Witness ==
    /\ Analyzed
    /\ \E f, g \in DOMAIN Store :
         /\ InList(issues.type0_issues, f)
         /\ \/ Attr(f, "is_default")
            \/ \E m \in Closure(f) : HasRecord(m) /\ ~MemberEnabled(m)
         /\ Attr(g, "some_default") /\ Implies(g) # <<>>
         /\ ~InList(issues.type0_issues, g)

C6_Original ==
    Analyzed =>
      \A f \in DOMAIN Store :
        InList(issues.type2_issues, f) <=>
          /\ ~Attr(f, "some_default")
          /\ ~Attr(f, "is_default") /\ ~Attr(f, "is_error")
          /\ \E m \in Closure(f) :
               HasRecord(m) /\ (Attr(m, "is_default") \/ Attr(m, "is_error"))

\* C6 amended: f is in the Type 2 list exactly when implies(f) is not empty,
\* some_default(f) is not set, f has neither is_default nor is_error set, and
\* some member of closure(f) has is_default or is_error set and has neither
\* has_no_effect set nor Type 0 status.
C6_Type2 ==
    Analyzed =>
      \A f \in DOMAIN Store :
        InList(issues.type2_issues, f) <=>
          /\ Implies(f) # <<>>
          /\ ~Attr(f, "some_default")
          /\ ~Attr(f, "is_default") /\ ~Attr(f, "is_error")
          /\ \E m \in Closure(f) :
               /\ HasRecord(m)
               /\ Attr(m, "is_default") \/ Attr(m, "is_error")
               /\ ~Attr(m, "has_no_effect")
               /\ ~IsType0(m)

\* A flag with has_no_effect set and no other attribute has a Type 2 finding.
C6_Witness ==
    /\ Analyzed
    /\ \E f \in DOMAIN Store :
         /\ Attr(f, "has_no_effect")
         /\ InList(issues.type2_issues, f)

\* ------------------------------------------------------------------ C7
\* C7 as stated: f is in the Type 3 list exactly when f has is_default,
\* is_error or has_no_effect set or is a Type 0 flag, and some member of
\* closure(f) is not enabled (a member with has_no_effect set and a Type 0
\* member being enabled).
C7_Original ==
    Analyzed =>
      \A f \in DOMAIN Store :
        InList(issues.type3_issues, f) <=>
          /\ MemberEnabled(f)
          /\ \E m \in Closure(f) : HasRecord(m) /\ ~MemberEnabled(m)

\* C7 amended: f is in the Type 3 list exactly when implies(f) is not empty,
\* f has is_default or is_error set (has_no_effect and Type 0 status of f do
\* not count), and some member of closure(f) that has a record is not enabled
\* (a member with has_no_effect set and a Type 0 member being enabled).
C7_Type3 ==
    Analyzed =>
      \A f \in DOMAIN Store :
        InList(issues.type3_issues, f) <=>
          /\ Implies(f) # <<>>
          /\ Attr(f, "is_default") \/ Attr(f, "is_error")
          /\ \E m \in Closure(f) : HasRecord(m) /\ ~MemberEnabled(m)

\* A flag with is_error set and is_default not set has a Type 3 finding, its
\* closure holding a member that is not enabled beside a name without a record.
C7_Witness ==
    /\ Analyzed
    /\ \E f \in DOMAIN Store :
         /\ Attr(f, "is_error") /\ ~Attr(f, "is_default")
         /\ \E m \in Closure(f) : ~HasRecord(m)
         /\ InList(issues.type3_issues, f)

\* ------------------------------------------------------------------ C8
\* C8 as stated: a flag f with some_default and is_default not set whose
\* implies list is exactly one child c, c having a record with is_default set
\* and has_no_effect not set, has a Type 2 finding.
C8_Original ==
    Analyzed =>
      \A f \in DOMAIN Store :
        ( /\ ~Attr(f, "some_default") /\ ~Attr(f, "is_default")
          /\ Len(Implies(f)) = 1
          /\ HasRecord(Implies(f)[1])
          /\ Attr(Implies(f)[1], "is_default")
          /\ ~Attr(Implies(f)[1], "has_no_effect") )
        => InList(issues.type2_issues, f)

\* ------------------------------------------------------------------ C9
\* C9 as stated: a flag f with is_default set whose implies list is exactly one
\* child c, c having a record with is_default, is_error and has_no_effect not
\* set and being no Type 0 flag, has a Type 3 finding that lists c among the
\* members not enabled by default.
C9_Original ==
    Analyzed =>
      \A f \in DOMAIN Store :
        ( /\ Attr(f, "is_default")
          /\ Len(Implies(f)) = 1
          /\ HasRecord(Implies(f)[1])
          /\ ~MemberEnabled(Implies(f)[1]) )
        => \E i \in DOMAIN issues.type3_issues :
             /\ issues.type3_issues[i].flag = f
             /\ \E j \in DOMAIN issues.type3_issues[i].not_enabled_by_default :
                  issues.type3_issues[i].not_enabled_by_default[j].name = Implies(f)[1]

\* ------------------------------------------------------------------ C10
InertOnlyChild(f) ==
    /\ Attr(f, "is_error")
    /\ Len(Implies(f)) = 1
    /\ HasRecord(Implies(f)[1])
    /\ Attr(Implies(f)[1], "has_no_effect")

\* C10 as stated: a flag f with is_error set whose implies list is exactly one
\* child, that child having has_no_effect set, is never in the Type 3 list.
C10_Original ==
    Analyzed =>
      \A f \in DOMAIN Store : InertOnlyChild(f) => ~InList(issues.type3_issues, f)

\* C10 amended: a flag f with is_error set whose implies list is exactly one
\* child, that child having has_no_effect set, and whose implies_transitive
\* list names no flag other than that child, is never in the Type 3 list.
C10_InertChild ==
    Analyzed =>
      \A f \in DOMAIN Store :
        (InertOnlyChild(f) /\ Closure(f) \subseteq {Implies(f)[1]})
        => ~InList(issues.type3_issues, f)

\* Such a flag whose implies_transitive list names the child, the child being
\* enabled by has_no_effect alone.
C10_Witness ==
    /\ Analyzed
    /\ \E f \in DOMAIN Store :
         /\ InertOnlyChild(f)
         /\ Closure(f) = {Implies(f)[1]}
         /\ ~Attr(Implies(f)[1], "is_default")
         /\ ~Attr(Implies(f)[1], "is_error")
         /\ ~IsType0(Implies(f)[1])
         /\ ~InList(issues.type3_issues, f)

\* ------------------------------------------------------------------ C11
\* The place of a flag in the iteration order of the store.
Position(f) == CHOOSE i \in DOMAIN data.flags.keys : data.flags.keys[i] = f

ListedNotEnabled(g, t) ==
    \E i \in DOMAIN issues.type3_issues :
      /\ issues.type3_issues[i].flag = g
      /\ \E j \in DOMAIN issues.type3_issues[i].not_enabled_by_default :
           issues.type3_issues[i].not_enabled_by_default[j].name = t

NoDuplicates(seq) == \A i, j \in DOMAIN seq : seq[i] = seq[j] => i = j

\* C12: for every store, cyclic or not, and every flag f, the top-level call
\* get_all_implies(flags, f) returns: it expands f first, expands no flag
\* twice, expands only f and names the store holds, and its value is a set of
\* names of the store.
C12_TraversalTerminates ==
    \A fl \in Stores :
      \A f \in NamesOf(fl) \cup Names :
        /\ NoDuplicates(get_all_implies(fl, f, {}).expanded)
        /\ get_all_implies(fl, f, {}).expanded[1] = f
        /\ Range(get_all_implies(fl, f, {}).expanded) \subseteq NamesOf(fl) \cup {f}
        /\ get_all_implies(fl, f, {}).result \subseteq NamesOf(fl)

\* A table with a flag that implies itself and two flags that imply each
\* other, the traversal from one of them expanding both.
C12_Witness ==
    /\ pc = "parsed"
    /\ \E f \in DOMAIN flags.val : f \in Succ(flags, f)
    /\ \E g, h \in DOMAIN flags.val :
         /\ g # h
         /\ h \in Succ(flags, g) /\ g \in Succ(flags, h)
         /\ get_all_implies(flags, g, {}).expanded = <<g, h>>

\* ------------------------------------------------------------------ C13
\* The findings of the three rules that look at sub-flags.
RuleFindings ==
    Range(issues.type1_issues) \cup Range(issues.type2_issues) \cup Range(issues.type3_issues)

HasMissingReference(f) == \E j \in DOMAIN Implies(f) : ~HasRecord(Implies(f)[j])

\* C13: an implies entry that names a flag without a record does not stop the
\* analysis: the Type 0 and Type 1 lists are still decided for every flag of
\* the store, and in every Type 1, 2 or 3 finding for f the direct_subflags
\* list has one entry per entry of implies(f), in order, the entry of a name
\* without a record having missing = true and None as its enabled status and
\* no other entry having a missing member.
C13_MissingReference ==
    Analyzed =>
      /\ (\E f \in DOMAIN Store : HasMissingReference(f)) =>
           \A g \in DOMAIN Store :
             /\ InList(issues.type0_issues, g) <=> IsType0(g)
             /\ InList(issues.type1_issues, g) <=>
                  /\ Attr(g, "some_default")
                  /\ ~IsType0(g)
                  /\ \A m \in Closure(g) : ~MemberEnabled(m)
      /\ \A fd \in RuleFindings :
           /\ Len(fd.direct_subflags) = Len(Implies(fd.flag))
           /\ \A j \in DOMAIN Implies(fd.flag) :
                /\ fd.direct_subflags[j].name = Implies(fd.flag)[j]
                /\ IF HasRecord(Implies(fd.flag)[j])
                   THEN "missing" \notin DOMAIN fd.direct_subflags[j]
                   ELSE /\ "missing" \in DOMAIN fd.direct_subflags[j]
                        /\ fd.direct_subflags[j].missing
                        /\ fd.direct_subflags[j].is_default = None
                        /\ fd.direct_subflags[j].some_default = None

\* A flag with a finding whose implies list names a flag with a record and a
\* name without one, beside another flag that has a finding too.
C13_Witness ==
    /\ Analyzed
    /\ \E fd \in RuleFindings :
         /\ HasMissingReference(fd.flag)
         /\ \E j \in DOMAIN Implies(fd.flag) : HasRecord(Implies(fd.flag)[j])
         /\ \E g \in DOMAIN Store \ {fd.flag} :
              \/ InList(issues.type0_issues, g)
              \/ \E gd \in RuleFindings : gd.flag = g

\* ------------------------------------------------------------------ C14
\* C14 as stated: a document without the 'flags' member is never loaded, the
\* run does not fail inside check_inconsistencies, and no finding lists are
\* returned for such a document.
C14_Original ==
    /\ pc = "loaded" => "flags" \in DOMAIN data
    /\ pc # "KeyError"
    /\ Analyzed => "flags" \in DOMAIN data

\* ------------------------------------------------------------------ C15
\* C15 as stated: the analysis produces finding lists only for a store in
\* which every record has the members implies, is_error, is_default and
\* some_default; has_no_effect and implies_transitive may be absent.
C15_Original ==
    Analyzed => \A f \in DOMAIN Store : RequiredFields \subseteq DOMAIN Store[f]

\* ------------------------------------------------------------------ C16
\* A supplied implies_transitive list that is not the closure recomputed from
\* the implies edges of the store.
Diverges(f) ==
    /\ "implies_transitive" \in DOMAIN Store[f]
    /\ Closure(f) # ReachableFrom(data.flags, f)

\* The loaded document with the implies_transitive list of f replaced by the
\* recomputed closure.
Recomputed(f) ==
    [flag_count |-> data.flag_count,
     flags |-> [keys |-> data.flags.keys,
                val |-> [n \in DOMAIN Store |->
                           IF n = f
                           THEN [Store[n] EXCEPT !.implies_transitive =
                                    Sorted(ReachableFrom(data.flags, f))]
                           ELSE Store[n]]]]

FindingsFor(iss, f) == [k \in DOMAIN iss |-> SelectSeq(iss[k], LAMBDA fd : fd.flag = f)]

\* C16 as stated, in its weakest form: when the supplied implies_transitive of
\* f differs from the recomputed closure, the output says so for f, so what
\* the analysis returns for f is not what it returns for f when the list is
\* the recomputed closure.
C16_Original ==
    Analyzed =>
      \A f \in DOMAIN Store :
        Diverges(f) =>
          FindingsFor(issues, f) # FindingsFor(check_inconsistencies(Recomputed(f)), f)

\* ------------------------------------------------------------------ C17
AllFindings == Range(issues.type0_issues) \cup RuleFindings

\* C17 as stated: every finding of the four lists carries the some_default,
\* is_default and is_error values of its flag's record: parent_some_default
\* and parent_is_default are the record's some_default and is_default, and
\* the finding has the record's is_error as parent_is_error.
C17_Original ==
    Analyzed =>
      \A fd \in AllFindings :
        /\ fd.parent_some_default = Attr(fd.flag, "some_default")
        /\ fd.parent_is_default = Attr(fd.flag, "is_default")
        /\ "parent_is_error" \in DOMAIN fd
        /\ fd.parent_is_error = Attr(fd.flag, "is_error")

\* ------------------------------------------------------------------ C18
InStoreOrder(list) ==
    /\ \A i \in DOMAIN list : list[i].flag \in DOMAIN Store
    /\ \A i, j \in DOMAIN list : i < j => Position(list[i].flag) < Position(list[j].flag)

\* C18: in each of the four lists the findings are in the iteration order of
\* the store: a finding that comes earlier in a list is for a flag that comes
\* earlier in the store, so no flag has two findings in one list.
C18_DiscoveryOrder ==
    Analyzed =>
      /\ InStoreOrder(issues.type0_issues)
      /\ InStoreOrder(issues.type1_issues)
      /\ InStoreOrder(issues.type2_issues)
      /\ InStoreOrder(issues.type3_issues)

\* A store that is not in the order of the names, with two findings in one
\* list and findings in another list.
C18_Witness ==
    /\ Analyzed
    /\ \E i \in DOMAIN data.flags.keys : i > 1 /\ data.flags.keys[i] < data.flags.keys[i - 1]
    /\ \E k \in DOMAIN issues : Len(issues[k]) > 1
    /\ \E k, l \in DOMAIN issues : k # l /\ issues[k] # <<>> /\ issues[l] # <<>>

\* ------------------------------------------------------------------ C19
\* The evidence entries of the findings: those of the direct children and
\* those of the closure members that a Type 2 or Type 3 finding lists.
EvidenceEntries ==
    UNION {Range(fd.direct_subflags)
             \cup Range(Get(fd, "enabled_by_default", <<>>))
             \cup Range(Get(fd, "not_enabled_by_default", <<>>)) : fd \in RuleFindings}

\* C19: the evidence entry of a member that has a record has as its composite
\* status is_default OR is_error OR has_no_effect OR member-is-Type-0 of that
\* record and carries the member's is_error, has_no_effect and Type 0 status;
\* the entry of a member without a record has the status None.
C19_EvidenceEntry ==
    Analyzed =>
      \A e \in EvidenceEntries :
        IF HasRecord(e.name)
        THEN /\ e.is_default = Py(\/ Attr(e.name, "is_default")
                                  \/ Attr(e.name, "is_error")
                                  \/ Attr(e.name, "has_no_effect")
                                  \/ IsType0(e.name))
             /\ e.is_error = Attr(e.name, "is_error")
             /\ e.has_no_effect = Attr(e.name, "has_no_effect")
             /\ e.is_type0 = IsType0(e.name)
        ELSE e.is_default = None

\* A Type 2 finding that lists a closure member enabled by is_error alone and
\* whose direct children are that member and a name without a record.
C19_Witness ==
    /\ Analyzed
    /\ \E i \in DOMAIN issues.type2_issues :
         /\ \E j \in DOMAIN issues.type2_issues[i].enabled_by_default :
              /\ issues.type2_issues[i].enabled_by_default[j].is_error
              /\ ~Attr(issues.type2_issues[i].enabled_by_default[j].name, "is_default")
              /\ issues.type2_issues[i].enabled_by_default[j].is_default = "True"
         /\ \E j \in DOMAIN issues.type2_issues[i].direct_subflags :
              issues.type2_issues[i].direct_subflags[j].is_default = None

\* ------------------------------------------------------------------ C20
\* C20: the analysis step leaves the loaded document as it is: the flag
\* mapping, its order and every member of every record are after the step
\* what they were before it.
C20_StoreReadOnly == [][pc = "loaded" => data' = data]_vars

\* The analysis has returned a finding with evidence for a flag whose record
\* has neither has_no_effect nor implies_transitive, and the store is the one
\* that was loaded.
C20_Witness ==
    /\ Analyzed
    /\ data = file
    /\ \E fd \in RuleFindings :
         /\ fd.direct_subflags # <<>>
         /\ "has_no_effect" \notin DOMAIN Store[fd.flag]
         /\ "implies_transitive" \notin DOMAIN Store[fd.flag]

\* ------------------------------------------------------------------ C21
\* implied_by is the inverse of implies in the parser's table, without
\* duplicates, and every implied name has a record.
ImpliedByIsInverse ==
    /\ \A p \in DOMAIN flags.val : Range(flags.val[p].implies) \subseteq DOMAIN flags.val
    /\ \A p, c \in DOMAIN flags.val :
         p \in Range(flags.val[c].implied_by) <=> c \in Range(flags.val[p].implies)
    /\ \A c \in DOMAIN flags.val : NoDuplicates(flags.val[c].implied_by)

\* C21 as stated: build_implied_by runs to completion on every parsed table,
\* and after it every implied name has a record and implied_by is the exact
\* inverse of implies, without duplicates.
C21_Original ==
    /\ pc # "RuntimeError"
    /\ pc = "built" => ImpliedByIsInverse

\* ------------------------------------------------------------------ C22
\* C22: a flag of the Type 0 list is in no other list and a flag of the
\* Type 2 list is in neither the Type 1 nor the Type 3 list, so the only two
\* lists that can both hold a finding for one flag are Type 1 and Type 3.
C22_OnlyType1And3Overlap ==
    Analyzed =>
      \A f \in DOMAIN Store :
        /\ InList(issues.type0_issues, f) =>
             /\ ~InList(issues.type1_issues, f)
             /\ ~InList(issues.type2_issues, f)
             /\ ~InList(issues.type3_issues, f)
        /\ InList(issues.type2_issues, f) =>
             /\ ~InList(issues.type1_issues, f)
             /\ ~InList(issues.type3_issues, f)

\* A flag with a finding in the Type 1 list and in the Type 3 list, in a store
\* that also has a flag with a Type 0 or a Type 2 finding.
C22_Witness ==
    /\ Analyzed
    /\ \E f \in DOMAIN Store :
         /\ InList(issues.type1_issues, f)
         /\ InList(issues.type3_issues, f)
    /\ issues.type0_issues # <<>> \/ issues.type2_issues # <<>>

\* ------------------------------------------------------------------ C23
\* C23: the counts of a finding fit the rule that fired.  A Type 1 finding has
\* enabled_by_default_count = 0; a Type 2 finding has
\* 1 <= truly_enabled_count <= enabled_by_default_count <= transitive_count; a
\* Type 3 finding has 1 <= not_enabled_by_default_count <= transitive_count,
\* and every member it lists as not enabled has a record with is_default,
\* is_error and has_no_effect not set and is no Type 0 flag.
C23_CountsFitRule ==
    Analyzed =>
      /\ \A i \in DOMAIN issues.type1_issues :
           issues.type1_issues[i].enabled_by_default_count = 0
      /\ \A i \in DOMAIN issues.type2_issues :
           /\ 1 <= issues.type2_issues[i].truly_enabled_count
           /\ issues.type2_issues[i].truly_enabled_count
                <= issues.type2_issues[i].enabled_by_default_count
           /\ issues.type2_issues[i].enabled_by_default_count
                <= issues.type2_issues[i].transitive_count
      /\ \A i \in DOMAIN issues.type3_issues :
           /\ 1 <= issues.type3_issues[i].not_enabled_by_default_count
           /\ issues.type3_issues[i].not_enabled_by_default_count
                <= issues.type3_issues[i].transitive_count
           /\ \A j \in DOMAIN issues.type3_issues[i].not_enabled_by_default :
                /\ HasRecord(issues.type3_issues[i].not_enabled_by_default[j].name)
                /\ ~MemberEnabled(issues.type3_issues[i].not_enabled_by_default[j].name)

\* The three lists each hold a finding: a Type 1 finding over a non-empty
\* closure, a Type 2 finding whose closure has a member that is not enabled
\* beside the enabled one, and a Type 3 finding that lists a member.
C23_Witness ==
    /\ Analyzed
    /\ \E i \in DOMAIN issues.type1_issues : issues.type1_issues[i].transitive_count > 0
    /\ \E i \in DOMAIN issues.type2_issues :
         issues.type2_issues[i].enabled_by_default_count
           < issues.type2_issues[i].transitive_count
    /\ \E i \in DOMAIN issues.type3_issues :
         issues.type3_issues[i].not_enabled_by_default # <<>>

====
